---- MODULE Spec2Model ----
(***************************************************************************)
(* Model of package gogctuner (src/unnamed/part_003, lines 442-688): the   *)
(* adaptive GOGC tuner, its constructor NewTuner, the lifecycle Start/Stop,*)
(* the adjustment routine adjustGOGC and the read operations               *)
(* GetCurrentGOGC and GetMetrics, together with the goroutines that call   *)
(* them: the caller of Start/Stop, a metrics reporter, the time.AfterFunc  *)
(* callbacks and the runtime's finalizer goroutine.                        *)
(*                                                                         *)
(* SafetyFactor and PeakThreshold are kept in hundredths (70 is 0.7, 150   *)
(* is 1.5); memory sizes are integers in one arbitrary unit (the formulas  *)
(* only use ratios of sizes).  float64 arithmetic is the exact arithmetic  *)
(* up to a rounding error far smaller than any difference the model can    *)
(* represent, so it only shows where the exact value sits on a boundary:   *)
(* a comparison of equal quantities, or int(x) of an exact integer.  The   *)
(* side the rounding error falls on depends on the byte values, and is an  *)
(* input of each adjustment (Roundings).  int(x) truncates toward zero.    *)
(* DebugMode only selects logging and is left out.                         *)
(***************************************************************************)
EXTENDS Integers, Sequences, FiniteSets, TLC

VARIABLES
    given,         \* what NewTuner was called with: Config, environment, MemStats.Sys
    config,        \* Tuner.config, as validated by NewTuner
    memoryLimit,   \* Tuner.memoryLimit
    currentGOGC,   \* Tuner.currentGOGC
    lastGCTime,    \* Tuner.lastGCTime
    enabled,       \* Tuner.enabled
    forceGCTimer,  \* Tuner.forceGCTimer: 0 is nil, i > 0 is the i-th timer created
    mu,            \* Tuner.mu: the goroutine holding the lock, or NoOne
    pc,            \* position of every goroutine
    armed,         \* armed[i]: the runtime will fire timer i
    finReg,        \* finalizers registered and not yet run, by kind
    finRunning,    \* kind of the finalizer the finalizer goroutine is running
    nStarts,       \* number of Start() calls made so far
    now,           \* the clock read by time.Now()
    gcPercent,     \* the runtime's GC percent (what debug.SetGCPercent sets)
    lastWrite,     \* who called debug.SetGCPercent last: "none", "adjust", "stop"
    knobCall,      \* the debug.SetGCPercent call the last step made: <<v>>, or <<>>
    liveBytes,     \* liveBytes of the adjustment the last step made (0: it made none)
    newGOGC,       \* newGOGC of the adjustment the last step made (0: it made none)
    snapshot,      \* the value GetMetrics / GetCurrentGOGC returned in the last step
    lastMetrics    \* the map the reporter keeps from its previous GetMetrics call

vars == <<given, config, memoryLimit, currentGOGC, lastGCTime, enabled, forceGCTimer, mu,
          pc, armed, finReg, finRunning, nStarts, now, gcPercent,
          lastWrite, knobCall, liveBytes, newGOGC, snapshot, lastMetrics>>

----------------------------------------------------------------------------
(* Bounds of the model *)

\* runtime.MemStats.HeapAlloc ranges over 0..MaxLive
MaxLive == 4
\* Start() is called at most MaxStarts times (one timer object per call)
MaxStarts == 2
\* the clock advances at most MaxClock times
MaxClock == 1

----------------------------------------------------------------------------
(* Program constants *)

\* defaultSafetyFactor = 0.7, in hundredths
defaultSafetyFactor == 70
\* config.MinGOGC = 25
DefaultMinGOGC == 25
\* config.MaxGOGC = 500
DefaultMaxGOGC == 500
\* config.PeakThreshold = 1.0 when AllowPeakOverride is off, in hundredths
NoPeakThreshold == 100
\* config.PeakThreshold = 1.5, in hundredths
DefaultPeakThreshold == 150
\* currentGOGC := 100 in NewTuner
DefaultGOGC == 100
\* newGOGC = 100 when liveBytes is 0
FallbackGOGC == 100
\* debug.SetGCPercent(100) in Stop
BaselineGOGC == 100

----------------------------------------------------------------------------
(* Arithmetic helpers *)

Abs(x) == IF x < 0 THEN -x ELSE x

\* int(a/b) for b > 0: Go's float-to-int conversion truncates toward zero
TruncDiv(a, b) == IF a >= 0 THEN a \div b ELSE -((-a) \div b)

\* How a float64 computation is off from the exact value: limit is the sign
\* of the error of safetyLimit, value that of the value given to int()
Roundings == [limit : {-1, 0, 1}, value : {-1, 0, 1}]

\* int(x) where x is the float64 computed for a/b, b > 0, off from a/b in the
\* direction r: it differs from int(a/b) only when a/b is an integer
FloatToInt(a, b, r) ==
    IF a % b # 0 THEN TruncDiv(a, b)
    ELSE LET n == a \div b
         IN  IF r < 0 /\ n > 0 THEN n - 1
             ELSE IF r > 0 /\ n < 0 THEN n + 1
             ELSE n

----------------------------------------------------------------------------
(* strconv.Atoi / strconv.ParseInt(s, 10, 64) on strings given as sequences *)
(* of one-character strings: optional sign, then one or more digits.        *)

DigitChars == <<"0", "1", "2", "3", "4", "5", "6", "7", "8", "9">>

IsDigit(c) == \E d \in 1..10 : DigitChars[d] = c

DigitVal(c) == (CHOOSE d \in 1..10 : DigitChars[d] = c) - 1

RECURSIVE DigitsVal(_, _)
DigitsVal(s, acc) ==
    IF s = <<>> THEN acc ELSE DigitsVal(Tail(s), acc * 10 + DigitVal(Head(s)))

Atoi(s) ==
    LET signed == s # <<>> /\ Head(s) \in {"+", "-"}
        digits == IF signed THEN Tail(s) ELSE s
    IN  IF digits = <<>> \/ \E i \in 1..Len(digits) : ~IsDigit(digits[i])
        THEN [ok |-> FALSE, val |-> 0]
        ELSE [ok |-> TRUE,
              val |-> IF signed /\ Head(s) = "-"
                      THEN -DigitsVal(digits, 0) ELSE DigitsVal(digits, 0)]

----------------------------------------------------------------------------
(* NewTuner *)

\* ApplyDefaults keeping a PeakThreshold below 1.0
ApplyDefaults_KeepsLowThreshold(c) ==
    [c EXCEPT
        !.SafetyFactor = IF c.SafetyFactor <= 0 \/ c.SafetyFactor > 100
                         THEN defaultSafetyFactor ELSE @,
        !.MinGOGC = IF c.MinGOGC <= 0 THEN DefaultMinGOGC ELSE @,
        !.MaxGOGC = IF c.MaxGOGC <= 0 THEN DefaultMaxGOGC ELSE @,
        !.PeakThreshold = IF ~c.AllowPeakOverride THEN NoPeakThreshold ELSE @]

\* ApplyDefaults rejecting a SafetyFactor of exactly 1 and a PeakThreshold
\* of exactly 1.0
ApplyDefaults_StrictBounds(c) ==
    [c EXCEPT
        !.SafetyFactor = IF c.SafetyFactor <= 0 \/ c.SafetyFactor >= 100
                         THEN defaultSafetyFactor ELSE @,
        !.MinGOGC = IF c.MinGOGC <= 0 THEN DefaultMinGOGC ELSE @,
        !.MaxGOGC = IF c.MaxGOGC <= 0 THEN DefaultMaxGOGC ELSE @,
        !.PeakThreshold = IF ~c.AllowPeakOverride THEN NoPeakThreshold
                          ELSE IF c.PeakThreshold <= 100 THEN DefaultPeakThreshold
                          ELSE @]

\* NewTuner's defaulting of the tunables (lines 493-509)
ApplyDefaults(c) ==
    [c EXCEPT
        !.SafetyFactor = IF c.SafetyFactor <= 0 \/ c.SafetyFactor > 100
                         THEN defaultSafetyFactor ELSE @,
        !.MinGOGC = IF c.MinGOGC <= 0 THEN DefaultMinGOGC ELSE @,
        !.MaxGOGC = IF c.MaxGOGC <= 0 THEN DefaultMaxGOGC ELSE @,
        !.PeakThreshold = IF ~c.AllowPeakOverride THEN NoPeakThreshold
                          ELSE IF c.PeakThreshold < 100 THEN DefaultPeakThreshold
                          ELSE @]

\* ResolveMemLimit with MEMORY_LIMIT_BYTES taking precedence over the Config
ResolveMemLimit_EnvFirst(c, envLimit, sys) ==
    LET parsed == Atoi(envLimit)
        fromEnv == IF envLimit # <<>> /\ parsed.ok THEN parsed.val ELSE 0
    IN  IF fromEnv # 0 THEN fromEnv
        ELSE IF c.MemoryHardLimit # 0 THEN c.MemoryHardLimit
        ELSE TruncDiv(sys * 8, 10)

\* NewTuner's resolution of the memory limit (lines 511-527): the explicit
\* value, else MEMORY_LIMIT_BYTES when it parses, else 80% of MemStats.Sys
ResolveMemLimit(c, envLimit, sys) ==
    IF c.MemoryHardLimit # 0 THEN c.MemoryHardLimit
    ELSE LET parsed == Atoi(envLimit)
             fromEnv == IF envLimit # <<>> /\ parsed.ok THEN parsed.val ELSE 0
         IN  IF fromEnv # 0 THEN fromEnv ELSE TruncDiv(sys * 8, 10)

\* NewTuner's initial currentGOGC (lines 530-535): GOGC when it parses, else 100
InitialGOGC(envGOGC) ==
    LET parsed == Atoi(envGOGC)
    IN  IF envGOGC # <<>> /\ parsed.ok THEN parsed.val ELSE DefaultGOGC

\* The GC percent in force when the process starts, which NewTuner's read of
\* GOGC mirrors: "off" disables the collector (-1), a number is taken as is
RuntimeGCPercent(envGOGC) ==
    IF envGOGC = <<"o", "f", "f">> THEN -1 ELSE InitialGOGC(envGOGC)

----------------------------------------------------------------------------
(* adjustGOGC: the computation of newGOGC (lines 625-654) *)

\* float64(liveBytes) > safetyLimit, safetyLimit = memoryLimit * SafetyFactor
OverSafetyLimit(c, limit, live, fp) ==
    \/ 100 * live > limit * c.SafetyFactor
    \/ (100 * live = limit * c.SafetyFactor /\ fp.limit < 0)

\* UnderHalfSafetyLimit with the comparison turned round
UnderHalfSafetyLimit_Inverted(c, limit, live, fp) ==
    \/ 200 * live > limit * c.SafetyFactor
    \/ (200 * live = limit * c.SafetyFactor /\ fp.limit < 0)

\* float64(liveBytes) < safetyLimit*0.5
UnderHalfSafetyLimit(c, limit, live, fp) ==
    \/ 200 * live < limit * c.SafetyFactor
    \/ (200 * live = limit * c.SafetyFactor /\ fp.limit > 0)

\* int((peakLimit/float64(liveBytes) - 1) * 100)
PeakFormula(c, limit, live, fp) ==
    FloatToInt(limit * c.SafetyFactor * c.PeakThreshold - 10000 * live, 100 * live,
               fp.value)

\* NormalFormula without the "- 1": int(safetyLimit/float64(liveBytes) * 100)
NormalFormula_WholeRatio(c, limit, live, fp) ==
    FloatToInt(limit * c.SafetyFactor, live, fp.value)

\* int((safetyLimit/float64(liveBytes) - 1) * 100)
NormalFormula(c, limit, live, fp) ==
    FloatToInt(limit * c.SafetyFactor - 100 * live, live, fp.value)

\* RawGOGC with the bounds swapped in the over-limit branch
RawGOGC_OverLimitMax(c, limit, live, fp) ==
    IF OverSafetyLimit(c, limit, live, fp) THEN c.MaxGOGC
    ELSE IF c.AllowPeakOverride /\ UnderHalfSafetyLimit(c, limit, live, fp)
         THEN PeakFormula(c, limit, live, fp)
    ELSE NormalFormula(c, limit, live, fp)

\* the three-way choice of lines 632-643, for liveBytes > 0
RawGOGC(c, limit, live, fp) ==
    IF OverSafetyLimit(c, limit, live, fp) THEN c.MinGOGC
    ELSE IF c.AllowPeakOverride /\ UnderHalfSafetyLimit(c, limit, live, fp)
         THEN PeakFormula(c, limit, live, fp)
    ELSE NormalFormula(c, limit, live, fp)

\* ClampGOGC without the lower bound
ClampGOGC_NoLower(c, g) ==
    IF g > c.MaxGOGC THEN c.MaxGOGC ELSE g

\* ClampGOGC without the upper bound
ClampGOGC_NoUpper(c, g) ==
    IF g < c.MinGOGC THEN c.MinGOGC ELSE g

\* lines 646-650
ClampGOGC(c, g) ==
    IF g < c.MinGOGC THEN c.MinGOGC
    ELSE IF g > c.MaxGOGC THEN c.MaxGOGC
    ELSE g

\* ComputeGOGC clamping the value used for an empty heap as well
ComputeGOGC_ClampsFallback(c, limit, live, fp) ==
    ClampGOGC(c, IF live > 0 THEN RawGOGC(c, limit, live, fp) ELSE FallbackGOGC)

\* lines 630-654
ComputeGOGC(c, limit, live, fp) ==
    IF live > 0 THEN ClampGOGC(c, RawGOGC(c, limit, live, fp)) ELSE FallbackGOGC

\* float64(a)/float64(cur) > 0.1, with IEEE division by zero (+Inf, -Inf, NaN)
RatioOverTenth(a, cur) ==
    IF cur > 0 THEN 10 * a > cur
    ELSE IF cur < 0 THEN 10 * a < cur
    ELSE a > 0

\* Significant with >= in place of >: a change of exactly 10% counts
Significant_FromTenth(new, cur) ==
    new # cur /\ 10 * Abs(new - cur) >= Abs(cur)

\* Significant with the first comparison only: a rise of more than 10%
Significant_OnlyUpward(new, cur) ==
    new # cur /\ RatioOverTenth(new - cur, cur)

\* the condition of lines 657-658
Significant(new, cur) ==
    new # cur /\ (RatioOverTenth(new - cur, cur) \/ RatioOverTenth(cur - new, cur))

----------------------------------------------------------------------------
(* Goroutines *)

Main == <<"main", 0>>          \* the goroutine that calls Start and Stop
Reporter == <<"reporter", 0>>  \* the goroutine that calls GetMetrics / GetCurrentGOGC
Fin == <<"fin", 0>>            \* the runtime's finalizer goroutine
Timer(i) == <<"timer", i>>     \* the goroutine running the callback of timer i
NoOne == <<"none", 0>>

Timers == 1..MaxStarts
TimerProcs == {Timer(i) : i \in Timers}
Procs == {Main, Reporter, Fin} \cup TimerProcs
Adjusters == {Main, Fin} \cup TimerProcs

NoFinalizers == [outer |-> 0, inner |-> 0]
NoSnapshot == [op |-> "none"]
NoCall == <<>>

----------------------------------------------------------------------------
(* The state NewTuner returns, before Start *)

\* NewTunerError rejecting a Config whose tunables are out of range
NewTunerError_RejectsBadTunables(raw, envLimit, envGOGC, sys) ==
    IF raw.SafetyFactor <= 0 \/ raw.SafetyFactor > 100 \/ raw.MinGOGC <= 0 \/ raw.MaxGOGC <= 0
    THEN "invalid config" ELSE "nil"

\* the error NewTuner returns (line 550: return tuner, nil)
NewTunerError(raw, envLimit, envGOGC, sys) == "nil"

\* NewTuner returning a tuner that is not enabled
NewTuner_Stopped(raw, envLimit, envGOGC, sys) ==
    /\ config = ApplyDefaults(raw)
    /\ memoryLimit = ResolveMemLimit(raw, envLimit, sys)
    /\ currentGOGC = InitialGOGC(envGOGC)
    /\ lastGCTime = 0
    /\ enabled = FALSE
    /\ forceGCTimer = 0
    /\ mu = NoOne
    /\ gcPercent = RuntimeGCPercent(envGOGC)
    /\ given = [raw |-> raw, envLimit |-> envLimit, envGOGC |-> envGOGC, sys |-> sys]

NewTuner(raw, envLimit, envGOGC, sys) ==
    /\ config = ApplyDefaults(raw)
    /\ memoryLimit = ResolveMemLimit(raw, envLimit, sys)
    /\ currentGOGC = InitialGOGC(envGOGC)
    /\ lastGCTime = 0
    /\ enabled = TRUE
    /\ forceGCTimer = 0
    /\ mu = NoOne
    /\ gcPercent = RuntimeGCPercent(envGOGC)
    /\ given = [raw |-> raw, envLimit |-> envLimit, envGOGC |-> envGOGC, sys |-> sys]

Quiescent ==
    /\ pc = [p \in Procs |-> "idle"]
    /\ armed = [i \in Timers |-> FALSE]
    /\ finReg = NoFinalizers
    /\ finRunning = "none"
    /\ nStarts = 0
    /\ now = 0
    /\ lastWrite = "none"
    /\ knobCall = NoCall
    /\ liveBytes = 0
    /\ newGOGC = 0
    /\ snapshot = NoSnapshot
    /\ lastMetrics = NoSnapshot

\* The configuration of the example program (lines 143-151, with the limit
\* 500 MB as 5 units) and one with tight bounds and no peak override
SpecConfigs ==
    { [MemoryHardLimit |-> 5, SafetyFactor |-> 70, MinGOGC |-> 25, MaxGOGC |-> 500,
       AllowPeakOverride |-> TRUE, PeakThreshold |-> 150],
      [MemoryHardLimit |-> 0, SafetyFactor |-> 0, MinGOGC |-> 90, MaxGOGC |-> 120,
       AllowPeakOverride |-> FALSE, PeakThreshold |-> 0] }

Init ==
    /\ \E raw \in SpecConfigs : NewTuner(raw, <<"4">>, <<>>, 10)
    /\ Quiescent

----------------------------------------------------------------------------
(* What a step reports of itself.  knobCall, liveBytes, newGOGC and         *)
(* snapshot describe the step just taken: the debug.SetGCPercent call it    *)
(* made, the sample and result of the adjustment it made, the value a read  *)
(* returned.  A step that does none of these leaves them empty.             *)

NoAdjustment ==
    /\ liveBytes' = 0
    /\ newGOGC' = 0

Quiet ==
    /\ knobCall' = NoCall
    /\ snapshot' = NoSnapshot
    /\ NoAdjustment

----------------------------------------------------------------------------
(* Start (lines 554-577): none of its accesses to the Tuner is under t.mu *)

\* if !t.enabled { t.enabled = true }
StartEnable ==
    /\ pc[Main] = "idle"
    /\ nStarts < MaxStarts
    /\ nStarts' = nStarts + 1
    /\ enabled' = TRUE
    /\ pc' = [pc EXCEPT ![Main] = "start_timer"]
    /\ Quiet
    /\ UNCHANGED <<given, lastMetrics, config, memoryLimit, currentGOGC, lastGCTime, forceGCTimer, mu,
                   armed, finReg, finRunning, now, gcPercent, lastWrite>>

\* t.forceGCTimer = time.AfterFunc(forcedGCInterval, ...)
StartTimer ==
    /\ pc[Main] = "start_timer"
    /\ forceGCTimer' = nStarts
    /\ armed' = [armed EXCEPT ![nStarts] = TRUE]
    /\ pc' = [pc EXCEPT ![Main] = "start_fin"]
    /\ Quiet
    /\ UNCHANGED <<given, lastMetrics, config, memoryLimit, currentGOGC, lastGCTime, enabled, mu, finReg,
                   finRunning, nStarts, now, gcPercent, lastWrite>>

\* runtime.SetFinalizer(new(byte), <outer finalizer>), then t.adjustGOGC() is called
StartFinalizer ==
    /\ pc[Main] = "start_fin"
    /\ finReg' = [finReg EXCEPT !.outer = @ + 1]
    /\ pc' = [pc EXCEPT ![Main] = "adj_lock"]
    /\ Quiet
    /\ UNCHANGED <<given, lastMetrics, config, memoryLimit, currentGOGC, lastGCTime, enabled, forceGCTimer,
                   mu, armed, finRunning, nStarts, now, gcPercent, lastWrite>>

----------------------------------------------------------------------------
(* adjustGOGC (lines 604-668), called by Start, by a timer callback or by a *)
(* finalizer                                                                *)

\* where the caller of adjustGOGC continues: Start returns, the timer
\* callback goes on to runtime.GC(), the finalizer returns
AfterAdjust(p) == IF p \in TimerProcs THEN "gc" ELSE "idle"

\* what the finalizer that called adjustGOGC does next (lines 569-572): the
\* outer one registers the inner one, the inner one registers nothing
FinalizersAfter(p) ==
    IF p = Fin /\ finRunning = "outer" THEN [finReg EXCEPT !.inner = @ + 1] ELSE finReg

\* t.mu.Lock()
AdjLock(p) ==
    /\ pc[p] = "adj_lock"
    /\ mu = NoOne
    /\ mu' = p
    /\ pc' = [pc EXCEPT ![p] = "adj_body"]
    /\ Quiet
    /\ UNCHANGED <<given, lastMetrics, config, memoryLimit, currentGOGC, lastGCTime, enabled, forceGCTimer,
                   armed, finReg, finRunning, nStarts, now, gcPercent, lastWrite>>

\* ApplyGOGC that sets the GC percent without recording it in t.currentGOGC
ApplyGOGC_KnobOnly(new) ==
    IF Significant(new, currentGOGC)
    THEN /\ gcPercent' = new
         /\ lastWrite' = "adjust"
         /\ knobCall' = <<new>>
         /\ UNCHANGED currentGOGC
    ELSE /\ knobCall' = NoCall
         /\ UNCHANGED <<currentGOGC, gcPercent, lastWrite>>

\* ApplyGOGC without the hysteresis: every computed value is applied
ApplyGOGC_Always(new) ==
    /\ currentGOGC' = new
    /\ gcPercent' = new
    /\ lastWrite' = "adjust"
    /\ knobCall' = <<new>>

\* lines 656-660: the new value is applied only when it is a significant change
ApplyGOGC(new) ==
    IF Significant(new, currentGOGC)
    THEN /\ currentGOGC' = new
         /\ gcPercent' = new
         /\ lastWrite' = "adjust"
         /\ knobCall' = <<new>>
    ELSE /\ knobCall' = NoCall
         /\ UNCHANGED <<currentGOGC, gcPercent, lastWrite>>

\* Adjust without the check of t.enabled
Adjust_IgnoresEnabled(live, new) ==
    /\ lastGCTime' = now
    /\ liveBytes' = live
    /\ newGOGC' = new
    /\ ApplyGOGC(new)

\* the values lines 625-654 can compute for the sample live
NewGOGCs(live) == {ComputeGOGC(config, memoryLimit, live, fp) : fp \in Roundings}

\* lines 608-668 for the sample live (MemStats.HeapAlloc), new being the
\* newGOGC computed for it: nothing when disabled, else lastGCTime, newGOGC
\* and its application
Adjust(live, new) ==
    IF ~enabled
    THEN /\ knobCall' = NoCall
         /\ NoAdjustment
         /\ UNCHANGED <<currentGOGC, lastGCTime, gcPercent, lastWrite>>
    ELSE /\ lastGCTime' = now
         /\ liveBytes' = live
         /\ newGOGC' = new
         /\ ApplyGOGC(new)

\* AdjBody whose early return on a disabled tuner keeps the lock
AdjBody_ReturnsLocked(p) ==
    /\ pc[p] = "adj_body"
    /\ mu = p
    /\ \E live \in 0..MaxLive : \E new \in NewGOGCs(live) : Adjust(live, new)
    /\ mu' = IF enabled THEN NoOne ELSE p
    /\ pc' = [pc EXCEPT ![p] = AfterAdjust(p)]
    /\ finReg' = FinalizersAfter(p)
    /\ finRunning' = IF p = Fin THEN "none" ELSE finRunning
    /\ snapshot' = NoSnapshot
    /\ UNCHANGED <<given, lastMetrics, config, memoryLimit, enabled, forceGCTimer, armed, nStarts, now>>

\* the body of adjustGOGC under t.mu, and the deferred t.mu.Unlock()
AdjBody(p) ==
    /\ pc[p] = "adj_body"
    /\ mu = p
    /\ \E live \in 0..MaxLive : \E new \in NewGOGCs(live) : Adjust(live, new)
    /\ mu' = NoOne
    /\ pc' = [pc EXCEPT ![p] = AfterAdjust(p)]
    /\ finReg' = FinalizersAfter(p)
    /\ finRunning' = IF p = Fin THEN "none" ELSE finRunning
    /\ snapshot' = NoSnapshot
    /\ UNCHANGED <<given, lastMetrics, config, memoryLimit, enabled, forceGCTimer, armed, nStarts, now>>

----------------------------------------------------------------------------
(* Stop (lines 580-594) *)

\* the call, and its t.mu.Lock()
StopLock ==
    /\ pc[Main] = "idle"
    /\ mu = NoOne
    /\ mu' = Main
    /\ pc' = [pc EXCEPT ![Main] = "stop_body"]
    /\ Quiet
    /\ UNCHANGED <<given, lastMetrics, config, memoryLimit, currentGOGC, lastGCTime, enabled, forceGCTimer,
                   armed, finReg, finRunning, nStarts, now, gcPercent, lastWrite>>

\* StopBody that returns at once when the tuner is not enabled
StopBody_GuardedNoOp ==
    /\ pc[Main] = "stop_body"
    /\ mu = Main
    /\ armed' = IF enabled /\ forceGCTimer # 0
                THEN [armed EXCEPT ![forceGCTimer] = FALSE] ELSE armed
    /\ enabled' = FALSE
    /\ gcPercent' = IF enabled THEN BaselineGOGC ELSE gcPercent
    /\ lastWrite' = IF enabled THEN "stop" ELSE lastWrite
    /\ knobCall' = IF enabled THEN <<BaselineGOGC>> ELSE NoCall
    /\ mu' = NoOne
    /\ pc' = [pc EXCEPT ![Main] = "idle"]
    /\ snapshot' = NoSnapshot
    /\ NoAdjustment
    /\ UNCHANGED <<given, lastMetrics, config, memoryLimit, currentGOGC, lastGCTime, forceGCTimer, finReg,
                   finRunning, nStarts, now>>

\* StopBody that puts back the tuner's own value instead of 100
StopBody_RestoresCurrent ==
    /\ pc[Main] = "stop_body"
    /\ mu = Main
    /\ armed' = IF forceGCTimer # 0 THEN [armed EXCEPT ![forceGCTimer] = FALSE] ELSE armed
    /\ enabled' = FALSE
    /\ gcPercent' = currentGOGC
    /\ lastWrite' = "stop"
    /\ knobCall' = <<currentGOGC>>
    /\ mu' = NoOne
    /\ pc' = [pc EXCEPT ![Main] = "idle"]
    /\ snapshot' = NoSnapshot
    /\ NoAdjustment
    /\ UNCHANGED <<given, lastMetrics, config, memoryLimit, currentGOGC, lastGCTime, forceGCTimer, finReg,
                   finRunning, nStarts, now>>

\* lines 584-590 and the deferred t.mu.Unlock()
StopBody ==
    /\ pc[Main] = "stop_body"
    /\ mu = Main
    /\ armed' = IF forceGCTimer # 0 THEN [armed EXCEPT ![forceGCTimer] = FALSE] ELSE armed
    /\ enabled' = FALSE
    /\ gcPercent' = BaselineGOGC
    /\ lastWrite' = "stop"
    /\ knobCall' = <<BaselineGOGC>>
    /\ mu' = NoOne
    /\ pc' = [pc EXCEPT ![Main] = "idle"]
    /\ snapshot' = NoSnapshot
    /\ NoAdjustment
    /\ UNCHANGED <<given, lastMetrics, config, memoryLimit, currentGOGC, lastGCTime, forceGCTimer, finReg,
                   finRunning, nStarts, now>>

----------------------------------------------------------------------------
(* The timer callback of Start (lines 560-564), run by the runtime in its   *)
(* own goroutine when the timer fires.  A timer does not fire again while   *)
(* its previous callback is still running (the interval is 2 minutes).      *)

\* the timer fires: the callback starts and calls t.adjustGOGC()
TimerFire(i) ==
    /\ armed[i]
    /\ pc[Timer(i)] = "idle"
    /\ armed' = [armed EXCEPT ![i] = FALSE]
    /\ pc' = [pc EXCEPT ![Timer(i)] = "adj_lock"]
    /\ Quiet
    /\ UNCHANGED <<given, lastMetrics, config, memoryLimit, currentGOGC, lastGCTime, enabled, forceGCTimer,
                   mu, finReg, finRunning, nStarts, now, gcPercent, lastWrite>>

\* TimerGCReset arming the timer again only while the heap is being tuned
\* away from the baseline
TimerGCReset_ResetIfTuned(i) ==
    /\ pc[Timer(i)] = "gc"
    /\ armed' = IF currentGOGC # BaselineGOGC
                THEN [armed EXCEPT ![forceGCTimer] = TRUE] ELSE armed
    /\ pc' = [pc EXCEPT ![Timer(i)] = "idle"]
    /\ Quiet
    /\ UNCHANGED <<given, lastMetrics, config, memoryLimit, currentGOGC, lastGCTime, enabled, forceGCTimer,
                   mu, finReg, finRunning, nStarts, now, gcPercent, lastWrite>>

\* runtime.GC(), then t.forceGCTimer.Reset(forcedGCInterval): the field is
\* read without t.mu, and the timer it names at that moment is armed
TimerGCReset(i) ==
    /\ pc[Timer(i)] = "gc"
    /\ armed' = [armed EXCEPT ![forceGCTimer] = TRUE]
    /\ pc' = [pc EXCEPT ![Timer(i)] = "idle"]
    /\ Quiet
    /\ UNCHANGED <<given, lastMetrics, config, memoryLimit, currentGOGC, lastGCTime, enabled, forceGCTimer,
                   mu, finReg, finRunning, nStarts, now, gcPercent, lastWrite>>

----------------------------------------------------------------------------
(* The finalizers of Start (lines 567-573).  A finalizer runs once, after   *)
(* a collection cycle that completes after its registration has found its  *)
(* object unreachable; cycles may complete at any moment, so a registered   *)
(* finalizer may run at any moment.  The runtime runs finalizers one at a   *)
(* time on one goroutine.                                                   *)

\* a registered finalizer is run: it calls t.adjustGOGC(), whose t.mu.Lock()
\* this step includes
FinRun(kind) ==
    /\ pc[Fin] = "idle"
    /\ finReg[kind] > 0
    /\ mu = NoOne
    /\ finReg' = [finReg EXCEPT ![kind] = @ - 1]
    /\ finRunning' = kind
    /\ mu' = Fin
    /\ pc' = [pc EXCEPT ![Fin] = "adj_body"]
    /\ Quiet
    /\ UNCHANGED <<given, lastMetrics, config, memoryLimit, currentGOGC, lastGCTime, enabled, forceGCTimer,
                   armed, nStarts, now, gcPercent, lastWrite>>

----------------------------------------------------------------------------
(* GetCurrentGOGC (lines 597-601) and GetMetrics (lines 671-688) *)

\* the call, and its t.mu.Lock()
ReadLock(op) ==
    /\ pc[Reporter] = "idle"
    /\ mu = NoOne
    /\ mu' = Reporter
    /\ pc' = [pc EXCEPT ![Reporter] = op]
    /\ Quiet
    /\ UNCHANGED <<given, lastMetrics, config, memoryLimit, currentGOGC, lastGCTime, enabled, forceGCTimer,
                   armed, finReg, finRunning, nStarts, now, gcPercent, lastWrite>>

\* return t.currentGOGC, and the deferred t.mu.Unlock()
GetCurrentGOGC ==
    /\ pc[Reporter] = "gogc_body"
    /\ mu = Reporter
    /\ snapshot' = [op |-> "gogc", current_gogc |-> currentGOGC]
    /\ mu' = NoOne
    /\ pc' = [pc EXCEPT ![Reporter] = "idle"]
    /\ knobCall' = NoCall
    /\ NoAdjustment
    /\ UNCHANGED <<given, lastMetrics, config, memoryLimit, currentGOGC, lastGCTime, enabled, forceGCTimer,
                   armed, finReg, finRunning, nStarts, now, gcPercent, lastWrite>>

\* GetMetrics reporting the runtime's GC percent instead of t.currentGOGC
GetMetrics_ReportsRuntimePercent ==
    /\ pc[Reporter] = "metrics_body"
    /\ mu = Reporter
    /\ \E heap \in 0..MaxLive :
          snapshot' = [op |-> "metrics",
                       current_gogc |-> gcPercent,
                       memory_limit_bytes |-> memoryLimit,
                       heap_alloc_bytes |-> heap,
                       safety_factor |-> config.SafetyFactor,
                       tuner_enabled |-> enabled]
    /\ mu' = NoOne
    /\ pc' = [pc EXCEPT ![Reporter] = "idle"]
    /\ knobCall' = NoCall
    /\ NoAdjustment
    /\ UNCHANGED <<given, lastMetrics, config, memoryLimit, currentGOGC, lastGCTime, enabled, forceGCTimer,
                   armed, finReg, finRunning, nStarts, now, gcPercent, lastWrite>>

\* the map GetMetrics returns, and the deferred t.mu.Unlock(); heap is
\* MemStats.HeapAlloc at the call, and memory_usage_ratio is
\* heap_alloc_bytes / memory_limit_bytes
GetMetrics ==
    /\ pc[Reporter] = "metrics_body"
    /\ mu = Reporter
    /\ \E heap \in 0..MaxLive :
          snapshot' = [op |-> "metrics",
                       current_gogc |-> currentGOGC,
                       memory_limit_bytes |-> memoryLimit,
                       heap_alloc_bytes |-> heap,
                       safety_factor |-> config.SafetyFactor,
                       tuner_enabled |-> enabled]
    /\ mu' = NoOne
    /\ pc' = [pc EXCEPT ![Reporter] = "idle"]
    /\ knobCall' = NoCall
    /\ NoAdjustment
    /\ UNCHANGED <<given, lastMetrics, config, memoryLimit, currentGOGC, lastGCTime, enabled, forceGCTimer,
                   armed, finReg, finRunning, nStarts, now, gcPercent, lastWrite>>

----------------------------------------------------------------------------
(* The whole system: the lifecycle and the concurrent callers.  lastGCTime  *)
(* only feeds the debug log, so the clock stands still here.                *)

Next ==
    \/ StartEnable
    \/ StartTimer
    \/ StartFinalizer
    \/ \E p \in {Main} \cup TimerProcs : AdjLock(p)
    \/ \E p \in Adjusters : AdjBody(p)
    \/ StopLock
    \/ StopBody
    \/ \E i \in Timers : TimerFire(i)
    \/ \E i \in Timers : TimerGCReset(i)
    \/ \E kind \in {"outer", "inner"} : FinRun(kind)
    \/ \E op \in {"gogc_body", "metrics_body"} : ReadLock(op)
    \/ GetCurrentGOGC
    \/ GetMetrics

Spec == Init /\ [][Next]_vars

----------------------------------------------------------------------------
(* adjustGOGC on its own: any Config NewTuner accepts, any environment,     *)
(* and the adjustment routine called again and again by one goroutine, as  *)
(* Start calls it at line 576, while the clock advances.                    *)

\* Config values a caller may pass to NewTuner: unset fields (0), values
\* NewTuner keeps, bounds given in the wrong order
CalcConfigs ==
    [MemoryHardLimit : {0, 5, 11, -3},
     SafetyFactor : {0, 50, 100},
     MinGOGC : {0, 10, 90, 600},
     MaxGOGC : {0, 50, 110},
     AllowPeakOverride : BOOLEAN,
     PeakThreshold : {0, 100, 300}]

\* MEMORY_LIMIT_BYTES: unset, a number
CalcEnvLimits == {<<>>, <<"4">>}

\* GOGC: unset, "off", and numbers inside and outside the usual range
CalcEnvGOGCs ==
    {<<>>, <<"o", "f", "f">>, <<"5", "0">>, <<"-", "1">>, <<"0">>, <<"5", "2", "0">>}

\* MemStats.Sys when NewTuner runs
CalcSys == {10}

CalcInit ==
    /\ \E raw \in CalcConfigs, envLimit \in CalcEnvLimits,
          envGOGC \in CalcEnvGOGCs, sys \in CalcSys :
            NewTuner(raw, envLimit, envGOGC, sys)
    /\ Quiescent

\* t.adjustGOGC() is called
CalcCall ==
    /\ pc[Main] = "idle"
    /\ pc' = [pc EXCEPT ![Main] = "adj_lock"]
    /\ Quiet
    /\ UNCHANGED <<given, lastMetrics, config, memoryLimit, currentGOGC, lastGCTime, enabled, forceGCTimer,
                   mu, armed, finReg, finRunning, nStarts, now, gcPercent, lastWrite>>

\* time passes between two calls
Tick ==
    /\ pc[Main] = "idle"
    /\ now < MaxClock
    /\ now' = now + 1
    /\ Quiet
    /\ UNCHANGED <<given, lastMetrics, config, memoryLimit, currentGOGC, lastGCTime, enabled, forceGCTimer,
                   mu, pc, armed, finReg, finRunning, nStarts, gcPercent, lastWrite>>

CalcNext ==
    \/ CalcCall
    \/ AdjLock(Main)
    \/ AdjBody(Main)
    \/ Tick

CalcSpec == CalcInit /\ [][CalcNext]_vars

----------------------------------------------------------------------------
(* Properties of the computation of newGOGC, under CalcSpec *)

\* C1, as stated: every enabled adjustment whose sample is above the safety
\* limit (liveBytes > memoryLimit * SafetyFactor) computes newGOGC = MinGOGC,
\* for every Config NewTuner accepts.
C1_OverLimitGivesMin ==
    (newGOGC # 0 /\ 100 * liveBytes > memoryLimit * config.SafetyFactor)
        => newGOGC = config.MinGOGC

\* C1, amended: every enabled adjustment whose sample is non-zero and above
\* the safety limit computes newGOGC = MinGOGC, for every Config NewTuner
\* accepts with MinGOGC <= MaxGOGC.
C1_OverLimitGivesMinWhenOrdered ==
    (/\ newGOGC # 0
     /\ liveBytes > 0
     /\ 100 * liveBytes > memoryLimit * config.SafetyFactor
     /\ config.MinGOGC <= config.MaxGOGC)
        => newGOGC = config.MinGOGC

\* an adjustment has just run on a non-zero sample above a positive safety
\* limit, with ordered bounds
C1_Witness ==
    /\ newGOGC # 0
    /\ memoryLimit > 0
    /\ 100 * liveBytes > memoryLimit * config.SafetyFactor
    /\ config.MinGOGC <= config.MaxGOGC
    /\ config.MinGOGC # DefaultMinGOGC

\* C2, as stated: every enabled adjustment computes a newGOGC with
\* MinGOGC <= newGOGC <= MaxGOGC, the sample liveBytes = 0 included.
C2_NewWithinBounds ==
    newGOGC # 0 => (config.MinGOGC <= newGOGC /\ newGOGC <= config.MaxGOGC)

\* C2, amended: every enabled adjustment on a sample liveBytes > 0 computes a
\* newGOGC with MinGOGC <= newGOGC <= MaxGOGC, for every Config NewTuner
\* accepts with MinGOGC <= MaxGOGC.
C2_NewWithinBoundsWhenSampled ==
    (newGOGC # 0 /\ liveBytes > 0 /\ config.MinGOGC <= config.MaxGOGC)
        => (config.MinGOGC <= newGOGC /\ newGOGC <= config.MaxGOGC)

\* an adjustment has just clamped a formula value above MaxGOGC
C2_Witness ==
    /\ newGOGC # 0
    /\ liveBytes > 0
    /\ config.MinGOGC <= config.MaxGOGC
    /\ \A fp \in Roundings : RawGOGC(config, memoryLimit, liveBytes, fp) > config.MaxGOGC
    /\ newGOGC = config.MaxGOGC

\* C3, as stated: an enabled adjustment whose newGOGC satisfies
\* |newGOGC - currentGOGC| / currentGOGC <= 0.10 (exactly 10% included)
\* leaves currentGOGC unchanged and does not call debug.SetGCPercent.
C3_SmallChangeIgnored ==
    [][(/\ newGOGC' # 0
        /\ currentGOGC # 0
        /\ (currentGOGC > 0 => 10 * Abs(newGOGC' - currentGOGC) <= currentGOGC))
          => (currentGOGC' = currentGOGC /\ knobCall' = NoCall)]_vars

\* C3, amended: the same whenever currentGOGC is positive.
C3_SmallChangeIgnoredWhenPositive ==
    [][(/\ newGOGC' # 0
        /\ currentGOGC > 0
        /\ 10 * Abs(newGOGC' - currentGOGC) <= currentGOGC)
          => (currentGOGC' = currentGOGC /\ knobCall' = NoCall)]_vars

\* an adjustment has just computed a value exactly 10% away from a positive
\* currentGOGC, and has left it
C3_Witness ==
    /\ newGOGC # 0
    /\ currentGOGC > 0
    /\ newGOGC # currentGOGC
    /\ 10 * Abs(newGOGC - currentGOGC) = currentGOGC
    /\ knobCall = NoCall

----------------------------------------------------------------------------
(* Properties of the lifecycle and of the concurrent callers, under Spec *)

\* C4: every call of Stop ends with the runtime's GC percent set to exactly
\* 100 by a debug.SetGCPercent(100) call, whatever it was before.
C4_StopSetsBaseline ==
    [][(pc[Main] = "stop_body" /\ pc'[Main] = "idle")
          => (gcPercent' = 100 /\ knobCall' = <<100>>)]_vars

\* Stop has just returned on a tuner whose adjustments had moved the GC
\* percent away from 100
C4_Witness ==
    /\ pc[Main] = "idle"
    /\ knobCall = <<100>>
    /\ lastWrite = "stop"
    /\ currentGOGC # 100
    /\ gcPercent = 100

\* C5: from the return of Stop until the next Start, the GC percent is 100
\* and stays 100, no step changes currentGOGC, and the only
\* debug.SetGCPercent call a step can make is Stop's own; an adjustment that
\* takes the lock in that time changes nothing.
C5_StoppedIsQuiet ==
    [][~enabled =>
         /\ gcPercent = 100
         /\ gcPercent' = 100
         /\ currentGOGC' = currentGOGC
         /\ newGOGC' = 0
         /\ (knobCall' # NoCall => (pc[Main] = "stop_body" /\ knobCall' = <<100>>))]_vars

\* Stop has returned, the tuner holds a tuned value, and an adjustment
\* called by a timer callback or a finalizer holds the lock
C5_Witness ==
    /\ ~enabled
    /\ pc[Main] = "idle"
    /\ mu \in Adjusters \ {Main}
    /\ currentGOGC # 100

\* C6, as stated: once Stop has returned no timer is armed, whatever the
\* interleaving with a callback in flight (no callback re-arms the timer).
C6_StoppedTimerStaysCancelled ==
    ~enabled => \A i \in Timers : ~armed[i]

\* C7, as stated: while the tuner is running, the collection-completed
\* callback is registered for the next collection or is executing (it
\* re-registers itself on every firing), so the event path never dies.
C7_FinalizerStaysRegistered ==
    (enabled /\ nStarts > 0 /\ pc[Main] = "idle")
        => (finReg.outer + finReg.inner > 0 \/ pc[Fin] # "idle")

\* C8, as stated: every step that changes a field of the Tuner (enabled,
\* forceGCTimer, currentGOGC, lastGCTime) is taken by the goroutine holding
\* t.mu, inside adjustGOGC or Stop.
C8_WritesUnderLock ==
    [][\A p \in Procs :
          (/\ pc'[p] # pc[p]
           /\ \/ enabled' # enabled
              \/ forceGCTimer' # forceGCTimer
              \/ currentGOGC' # currentGOGC
              \/ lastGCTime' # lastGCTime)
            => (mu = p /\ pc[p] \in {"adj_body", "stop_body"})]_vars

\* C9, as stated: once debug.SetGCPercent has been called by the tuner, the
\* currentGOGC that GetCurrentGOGC and GetMetrics return is the value last
\* passed to debug.SetGCPercent.
C9_ReadsLastWritten ==
    (lastWrite # "none" /\ snapshot.op # "none") => snapshot.current_gogc = gcPercent

\* C10, as stated: a Tuner on which Start has not been called is not
\* enabled, and GetMetrics reports it so.
C10_StoppedUntilStart ==
    nStarts = 0 =>
        (~enabled /\ (snapshot.op = "metrics" => ~snapshot.tuner_enabled))

\* C10, amended: a Tuner is enabled from its construction until Stop runs;
\* Start sets enabled, Stop clears it, no other step changes it; and the
\* tuner_enabled GetMetrics returns is the field's value at the call.
C10_EnabledFromNewUntilStop ==
    [][/\ (nStarts = 0 /\ lastWrite # "stop") => enabled
       /\ (pc[Main] = "idle" /\ pc'[Main] = "start_timer") => enabled'
       /\ (pc[Main] = "stop_body" /\ pc'[Main] = "idle") => ~enabled'
       /\ (pc'[Main] = pc[Main] \/ pc'[Main] \notin {"start_timer", "idle"})
             => enabled' = enabled
       /\ snapshot'.op = "metrics" => snapshot'.tuner_enabled = enabled]_vars

\* GetMetrics has just reported an enabled tuner on which Start was never
\* called
C10_Witness ==
    /\ nStarts = 0
    /\ snapshot.op = "metrics"
    /\ snapshot.tuner_enabled
    /\ lastWrite = "none"

\* C11, as stated: a Stop on a tuner that was stopped earlier, or on which
\* Start was never called, changes no field of the Tuner and makes no
\* debug.SetGCPercent call.
C11_StopOnStoppedIsNoOp ==
    [][(/\ pc[Main] = "stop_body"
        /\ pc'[Main] = "idle"
        /\ (~enabled \/ nStarts = 0))
          => (/\ UNCHANGED <<config, memoryLimit, currentGOGC, lastGCTime, enabled,
                             forceGCTimer>>
              /\ knobCall' = NoCall)]_vars

\* C11, amended: a Stop on a tuner that was stopped earlier changes no field
\* of the Tuner and leaves the GC percent at 100, but does call
\* debug.SetGCPercent(100) again; a Stop on a tuner on which Start was never
\* called clears enabled, calls debug.SetGCPercent(100) and changes no other
\* field.
C11_StopOnStoppedRepeatsBaseline ==
    [][(pc[Main] = "stop_body" /\ pc'[Main] = "idle") =>
          /\ ~enabled =>
                /\ UNCHANGED <<config, memoryLimit, currentGOGC, lastGCTime, enabled,
                               forceGCTimer, gcPercent>>
                /\ gcPercent = 100
                /\ knobCall' = <<100>>
          /\ (enabled /\ nStarts = 0) =>
                /\ UNCHANGED <<config, memoryLimit, currentGOGC, lastGCTime,
                               forceGCTimer>>
                /\ ~enabled'
                /\ gcPercent' = 100
                /\ knobCall' = <<100>>]_vars

\* Stop is running, with the lock, on a tuner that was started and stopped
\* before
C11_Witness ==
    /\ pc[Main] = "stop_body"
    /\ ~enabled
    /\ nStarts > 0
    /\ lastWrite = "stop"

\* C12, as stated: Start on a running tuner leaves one live timer, so the
\* next Stop leaves no timer armed when it returns.
C12_StopLeavesNoTimerArmed ==
    [][(pc[Main] = "stop_body" /\ pc'[Main] = "idle")
          => \A i \in Timers : ~armed'[i]]_vars

----------------------------------------------------------------------------
(* GetMetrics called again and again by the reporter, which keeps the map   *)
(* of its previous call, while no adjustment runs: the heap changes freely  *)
(* between the calls and Stop may be called.                                *)

ReadInit ==
    /\ \E raw \in SpecConfigs, envGOGC \in CalcEnvGOGCs :
          NewTuner(raw, <<"4">>, envGOGC, 10)
    /\ Quiescent

\* metrics := tuner.GetMetrics(): the reporter stores the map it received
ReporterKeep ==
    /\ pc[Reporter] = "idle"
    /\ snapshot.op = "metrics"
    /\ lastMetrics' = snapshot
    /\ Quiet
    /\ UNCHANGED <<given, config, memoryLimit, currentGOGC, lastGCTime, enabled, forceGCTimer,
                   mu, pc, armed, finReg, finRunning, nStarts, now, gcPercent, lastWrite>>

ReadNext ==
    \/ ReadLock("metrics_body")
    \/ GetMetrics
    \/ ReporterKeep
    \/ StopLock
    \/ StopBody

ReadSpec == ReadInit /\ [][ReadNext]_vars

\* C13, as stated: a GetMetrics call that follows another one with no
\* adjustment in between returns the same map, field by field.
C13_MetricsRepeat ==
    (snapshot.op = "metrics" /\ lastMetrics.op = "metrics") => snapshot = lastMetrics

\* C13, amended: such a call returns the same current_gogc,
\* memory_limit_bytes and safety_factor, and the same tuner_enabled unless
\* Stop ran in between (then it went from true to false); heap_alloc_bytes
\* is whatever the heap is at each call.
C13_MetricsRepeatTunerFields ==
    (snapshot.op = "metrics" /\ lastMetrics.op = "metrics") =>
        /\ snapshot.current_gogc = lastMetrics.current_gogc
        /\ snapshot.memory_limit_bytes = lastMetrics.memory_limit_bytes
        /\ snapshot.safety_factor = lastMetrics.safety_factor
        /\ \/ snapshot.tuner_enabled = lastMetrics.tuner_enabled
           \/ (lastMetrics.tuner_enabled /\ ~snapshot.tuner_enabled /\ lastWrite = "stop")

\* two GetMetrics calls around a Stop and a change of the heap, on a tuner
\* whose GC percent was not 100
C13_Witness ==
    /\ snapshot.op = "metrics"
    /\ lastMetrics.op = "metrics"
    /\ snapshot.heap_alloc_bytes # lastMetrics.heap_alloc_bytes
    /\ lastMetrics.tuner_enabled
    /\ ~snapshot.tuner_enabled
    /\ snapshot.current_gogc # 100

----------------------------------------------------------------------------
(* NewTuner on its own: every kind of Config and environment, and the read  *)
(* operations on the tuner it returns.                                      *)

\* Config values a caller may pass to NewTuner: unset fields (0), values
\* NewTuner replaces, values it keeps
NewConfigs ==
    [MemoryHardLimit : {0, 5, -3},
     SafetyFactor : {-20, 0, 1, 70, 100, 101, 130},
     MinGOGC : {-1, 0, 1, 90, 600},
     MaxGOGC : {-1, 0, 1, 110},
     AllowPeakOverride : BOOLEAN,
     PeakThreshold : {-50, 0, 99, 100, 300}]

\* MEMORY_LIMIT_BYTES: unset, numbers, zero, not a number
NewEnvLimits == {<<>>, <<"4">>, <<"+", "1", "2">>, <<"-", "6">>, <<"0">>, <<"x">>, <<"4", "k">>}

\* GOGC: unset, a number, not a number
NewEnvGOGCs == {<<>>, <<"5", "0">>, <<"o", "f", "f">>}

\* MemStats.Sys when NewTuner runs
NewSys == {10, 3}

NewInit ==
    /\ \E raw \in NewConfigs, envLimit \in NewEnvLimits,
          envGOGC \in NewEnvGOGCs, sys \in NewSys :
            NewTuner(raw, envLimit, envGOGC, sys)
    /\ Quiescent

NewNext ==
    \/ ReadLock("gogc_body")
    \/ GetCurrentGOGC

NewSpec == NewInit /\ [][NewNext]_vars

\* C14, as stated: memoryLimit is the explicit MemoryHardLimit when it is
\* set (non-zero); otherwise MEMORY_LIMIT_BYTES when it is present and
\* parses; otherwise 80% of MemStats.Sys.
C14_LimitPriority ==
    LET explicit == given.raw.MemoryHardLimit
        parsed == Atoi(given.envLimit)
    IN  /\ explicit # 0 => memoryLimit = explicit
        /\ (explicit = 0 /\ given.envLimit # <<>> /\ parsed.ok)
              => memoryLimit = parsed.val
        /\ (explicit = 0 /\ (given.envLimit = <<>> \/ ~parsed.ok))
              => memoryLimit = (8 * given.sys) \div 10

\* C14, amended: the same, except that a MEMORY_LIMIT_BYTES that parses to 0
\* counts as absent.
C14_LimitPriorityNonZero ==
    LET explicit == given.raw.MemoryHardLimit
        parsed == Atoi(given.envLimit)
        usable == given.envLimit # <<>> /\ parsed.ok /\ parsed.val # 0
    IN  /\ explicit # 0 => memoryLimit = explicit
        /\ (explicit = 0 /\ usable) => memoryLimit = parsed.val
        /\ (explicit = 0 /\ ~usable) => memoryLimit = (8 * given.sys) \div 10

\* NewTuner has taken the limit from MEMORY_LIMIT_BYTES, and it is neither
\* zero nor what the fallback would give
C14_Witness ==
    /\ given.raw.MemoryHardLimit = 0
    /\ given.envLimit = <<"+", "1", "2">>
    /\ memoryLimit = 12
    /\ memoryLimit # (8 * given.sys) \div 10
    /\ snapshot.op = "gogc"

\* C15: NewTuner replaces SafetyFactor by 0.7 when it is <= 0 or > 1,
\* MinGOGC by 25 and MaxGOGC by 500 when they are <= 0, PeakThreshold by 1.0
\* when AllowPeakOverride is off and by 1.5 when it is on and the threshold
\* is < 1.0; every other field of the Config is kept as given.
C15_Defaults ==
    LET raw == given.raw
    IN  /\ config.SafetyFactor =
              IF raw.SafetyFactor <= 0 \/ raw.SafetyFactor > 100 THEN 70
              ELSE raw.SafetyFactor
        /\ config.MinGOGC = IF raw.MinGOGC <= 0 THEN 25 ELSE raw.MinGOGC
        /\ config.MaxGOGC = IF raw.MaxGOGC <= 0 THEN 500 ELSE raw.MaxGOGC
        /\ ~raw.AllowPeakOverride => config.PeakThreshold = 100
        /\ (raw.AllowPeakOverride /\ raw.PeakThreshold < 100)
              => config.PeakThreshold = 150
        /\ (raw.AllowPeakOverride /\ raw.PeakThreshold >= 100)
              => config.PeakThreshold = raw.PeakThreshold
        /\ config.AllowPeakOverride = raw.AllowPeakOverride
        /\ config.MemoryHardLimit = raw.MemoryHardLimit

\* NewTuner has replaced a SafetyFactor just above 1, a negative MaxGOGC and
\* a PeakThreshold just below 1.0, and has kept a MinGOGC of 1
C15_Witness ==
    /\ given.raw.SafetyFactor = 101
    /\ config.SafetyFactor = 70
    /\ given.raw.MinGOGC = 1
    /\ config.MinGOGC = 1
    /\ given.raw.MaxGOGC = -1
    /\ config.MaxGOGC = 500
    /\ given.raw.AllowPeakOverride
    /\ given.raw.PeakThreshold = 99
    /\ config.PeakThreshold = 150

\* C16: for every Config, NewTuner returns a nil error and a tuner that is
\* enabled and whose stored tunables are all valid: 0 < SafetyFactor <= 1,
\* MinGOGC > 0, MaxGOGC > 0, PeakThreshold >= 1.0.
C16_NoErrorForAnyConfig ==
    /\ NewTunerError(given.raw, given.envLimit, given.envGOGC, given.sys) = "nil"
    /\ config.SafetyFactor \in 1..100
    /\ config.MinGOGC > 0
    /\ config.MaxGOGC > 0
    /\ config.PeakThreshold >= 100
    /\ enabled

\* NewTuner was given a Config with every tunable invalid, and the tuner it
\* returned has answered GetCurrentGOGC
C16_Witness ==
    /\ given.raw.SafetyFactor = -20
    /\ given.raw.MinGOGC = -1
    /\ given.raw.MaxGOGC = -1
    /\ given.raw.AllowPeakOverride
    /\ given.raw.PeakThreshold = -50
    /\ snapshot.op = "gogc"
    /\ snapshot.current_gogc = currentGOGC

----------------------------------------------------------------------------
(* Properties of the formula branches, under CalcSpec *)

\* C17, as stated: an enabled adjustment on a sample with
\* 0 < liveBytes <= safetyLimit computes
\* clamp(round((ceiling / liveBytes - 1) * 100), MinGOGC, MaxGOGC), rounding
\* to the nearest integer, where ceiling is peakLimit when AllowPeakOverride
\* is on and liveBytes < safetyLimit * 0.5, and safetyLimit otherwise.
C17_RoundedFormula ==
    (newGOGC # 0 /\ liveBytes > 0
       /\ 100 * liveBytes <= memoryLimit * config.SafetyFactor)
    => LET peak == config.AllowPeakOverride
                      /\ 200 * liveBytes < memoryLimit * config.SafetyFactor
           \* (ceiling / liveBytes - 1) * 100 as the fraction num / den
           num == IF peak
                  THEN memoryLimit * config.SafetyFactor * config.PeakThreshold
                          - 10000 * liveBytes
                  ELSE 100 * memoryLimit * config.SafetyFactor - 10000 * liveBytes
           den == 100 * liveBytes
           rounded == (2 * num + den) \div (2 * den)
       IN  newGOGC = ClampGOGC(config, rounded)

\* The Config NewTuner stores when it is given the same Config with
\* AllowPeakOverride off
WithoutOverride == ApplyDefaults([given.raw EXCEPT !.AllowPeakOverride = FALSE])

\* C18: after an enabled adjustment on a sample with
\* 0 < liveBytes < safetyLimit * 0.5 and AllowPeakOverride on, the value
\* computed before clamping is at least the value the same inputs give with
\* AllowPeakOverride off.  (With PeakThreshold = 1.0 the two float64
\* computations are the same, so they round the same way.)
C18_PeakWidens ==
    (/\ newGOGC # 0
     /\ liveBytes > 0
     /\ 200 * liveBytes < memoryLimit * config.SafetyFactor
     /\ config.AllowPeakOverride)
    => \A fp1, fp2 \in Roundings :
          (config.PeakThreshold = 100 => fp1 = fp2)
          => RawGOGC(config, memoryLimit, liveBytes, fp1)
                >= RawGOGC(WithoutOverride, memoryLimit, liveBytes, fp2)

\* an adjustment has just run under half the safety limit with a threshold
\* of 3.0, and the override has raised the value before clamping
C18_Witness ==
    /\ newGOGC # 0
    /\ liveBytes > 0
    /\ 200 * liveBytes < memoryLimit * config.SafetyFactor
    /\ config.AllowPeakOverride
    /\ config.PeakThreshold = 300
    /\ \A fp \in Roundings :
          RawGOGC(config, memoryLimit, liveBytes, fp)
             > RawGOGC(WithoutOverride, memoryLimit, liveBytes, fp)


\* C19: an enabled adjustment whose sample has liveBytes = 0 computes
\* newGOGC = 100, whatever the limit, the safety factor, MinGOGC, MaxGOGC and
\* the override settings are.
C19_ZeroLiveGivesFallback ==
    (newGOGC # 0 /\ liveBytes = 0) => newGOGC = FallbackGOGC

\* an adjustment has just run on an empty heap with MinGOGC above 100 and
\* the override on, and has computed 100
C19_Witness ==
    /\ newGOGC = FallbackGOGC
    /\ liveBytes = 0
    /\ config.MinGOGC > FallbackGOGC
    /\ config.AllowPeakOverride


\* 10000 times the ceiling of the branch adjustGOGC takes for a sample of
\* live bytes that is not over the safety limit
Ceiling(c, limit, live, fp) ==
    IF c.AllowPeakOverride /\ UnderHalfSafetyLimit(c, limit, live, fp)
    THEN limit * c.SafetyFactor * c.PeakThreshold
    ELSE 100 * limit * c.SafetyFactor

\* live * (100 + g) <= 100 * ceiling
WithinCeiling(c, limit, live, fp, g) ==
    100 * live * (100 + g) <= Ceiling(c, limit, live, fp)

\* C20: after an enabled adjustment on a sample with
\* 0 < liveBytes <= safetyLimit that took a formula branch, if the computed
\* value was not raised to MinGOGC then liveBytes * (100 + newGOGC) is at most
\* 100 * ceiling, and if it was not lowered to MaxGOGC either then
\* newGOGC + 1 breaks that inequality.
C20_LargestUnderCeiling ==
    (/\ newGOGC # 0
     /\ liveBytes > 0
     /\ 100 * liveBytes <= memoryLimit * config.SafetyFactor)
    => \A fp \in Roundings :
          LET raw == RawGOGC(config, memoryLimit, liveBytes, fp)
          IN  (/\ ~OverSafetyLimit(config, memoryLimit, liveBytes, fp)
               /\ newGOGC = ClampGOGC(config, raw)
               /\ raw >= config.MinGOGC)
              => /\ WithinCeiling(config, memoryLimit, liveBytes, fp, newGOGC)
                 /\ raw <= config.MaxGOGC
                      => ~WithinCeiling(config, memoryLimit, liveBytes, fp,
                                        newGOGC + 1)


\* C21, as stated: after an enabled adjustment on a sample with
\* 0 < liveBytes <= safetyLimit, the heap size the computed value implies,
\* liveBytes * (1 + newGOGC / 100), is at most memoryLimit, for every Config
\* NewTuner accepts.
C21_WithinBudget ==
    (/\ newGOGC # 0
     /\ liveBytes > 0
     /\ 100 * liveBytes <= memoryLimit * config.SafetyFactor)
    => liveBytes * (100 + newGOGC) <= 100 * memoryLimit

\* C21, amended: the same holds when the value of the formula was not raised
\* to MinGOGC and either the normal branch was taken or
\* SafetyFactor * PeakThreshold <= 1 (the peak ceiling is within the limit).
C21_WithinBudgetUnlessWidened ==
    (/\ newGOGC # 0
     /\ liveBytes > 0
     /\ 100 * liveBytes <= memoryLimit * config.SafetyFactor)
    => \A fp \in Roundings :
          LET raw == RawGOGC(config, memoryLimit, liveBytes, fp)
              peak == config.AllowPeakOverride
                         /\ UnderHalfSafetyLimit(config, memoryLimit, liveBytes, fp)
          IN  (/\ ~OverSafetyLimit(config, memoryLimit, liveBytes, fp)
               /\ newGOGC = ClampGOGC(config, raw)
               /\ raw >= config.MinGOGC
               /\ (peak => config.SafetyFactor * config.PeakThreshold <= 10000))
              => liveBytes * (100 + newGOGC) <= 100 * memoryLimit

\* an adjustment has just taken the peak branch with a peak ceiling above the
\* safety limit and within the memory limit, and no clamp has acted
C21_Witness ==
    /\ newGOGC # 0
    /\ liveBytes > 0
    /\ config.AllowPeakOverride
    /\ 200 * liveBytes < memoryLimit * config.SafetyFactor
    /\ config.PeakThreshold > 100
    /\ config.SafetyFactor * config.PeakThreshold <= 10000
    /\ \A fp \in Roundings :
          LET raw == RawGOGC(config, memoryLimit, liveBytes, fp)
          IN  raw >= config.MinGOGC /\ raw <= config.MaxGOGC


\* C22, as stated: for a fixed Config and limit, the value computed for a
\* sample is at most the value computed for any smaller sample, the sample
\* 0 included.
C22_FallsAsLiveGrows ==
    newGOGC # 0
    => \A a \in 0..MaxLive :
          a < liveBytes => \A g \in NewGOGCs(a) : g >= newGOGC

\* C22, amended: the same for any smaller sample a > 0, for every Config
\* NewTuner accepts with MinGOGC <= MaxGOGC.
C22_FallsAsLiveGrowsWhenSampled ==
    (newGOGC # 0 /\ config.MinGOGC <= config.MaxGOGC)
    => \A a \in 1..MaxLive :
          a < liveBytes => \A g \in NewGOGCs(a) : g >= newGOGC

\* an adjustment has just computed a value between the bounds, and a smaller
\* non-zero sample gives a strictly greater one
C22_Witness ==
    /\ newGOGC # 0
    /\ config.MinGOGC < newGOGC
    /\ newGOGC < config.MaxGOGC
    /\ \E a \in 1..MaxLive :
          a < liveBytes /\ \A g \in NewGOGCs(a) : g > newGOGC


----------------------------------------------------------------------------
(* Properties of the application of newGOGC, under CalcSpec *)

\* C23: an enabled adjustment whose newGOGC deviates from currentGOGC by more
\* than 10% of currentGOGC, upward or downward, is applied: afterwards
\* currentGOGC is newGOGC and the step has made exactly one
\* debug.SetGCPercent call, with that value.
C23_LargeChangeApplied ==
    [][(newGOGC' # 0 /\ 10 * Abs(newGOGC' - currentGOGC) > Abs(currentGOGC))
          => (/\ currentGOGC' = newGOGC'
              /\ knobCall' = <<newGOGC'>>
              /\ gcPercent' = newGOGC')]_vars

\* an adjustment has just applied a value above MinGOGC and below the
\* currentGOGC NewTuner started with
C23_Witness ==
    /\ newGOGC # 0
    /\ liveBytes > 1
    /\ currentGOGC = newGOGC
    /\ knobCall = <<newGOGC>>
    /\ gcPercent = newGOGC
    /\ newGOGC < InitialGOGC(given.envGOGC)
    /\ config.MinGOGC < newGOGC


----------------------------------------------------------------------------
(* The system under fair scheduling.  A goroutine inside a call goes on to  *)
(* its next step; the runtime fires an armed timer; sync.Mutex hands the    *)
(* lock to a goroutine that keeps waiting for it (its starvation mode), so  *)
(* a Lock() that can be granted again and again is granted.  Whether Start, *)
(* Stop or a read is called at all is up to the program, and a finalizer    *)
(* runs only if a collection cycle happens to complete.                     *)

Fairness ==
    /\ WF_vars(StartTimer)
    /\ WF_vars(StartFinalizer)
    /\ \A p \in {Main} \cup TimerProcs : SF_vars(AdjLock(p))
    /\ \A p \in Adjusters : WF_vars(AdjBody(p))
    /\ WF_vars(StopBody)
    /\ \A i \in Timers : WF_vars(TimerFire(i))
    /\ \A i \in Timers : WF_vars(TimerGCReset(i))
    /\ WF_vars(GetCurrentGOGC)
    /\ WF_vars(GetMetrics)

\* NewTuner with unset tunables except bounds on GOGC, the limit taken from
\* MEMORY_LIMIT_BYTES.  The bounds are within 10% of the initial 100, so the
\* adjustments compute 90, 100 or 110 and scheduling alone tells the states
\* apart.
LiveInit ==
    /\ NewTuner([MemoryHardLimit |-> 0, SafetyFactor |-> 0, MinGOGC |-> 90,
                 MaxGOGC |-> 110, AllowPeakOverride |-> FALSE, PeakThreshold |-> 0],
                <<"4">>, <<>>, 10)
    /\ Quiescent

LiveSpec == LiveInit /\ [][Next]_vars /\ Fairness

\* a timer callback has returned from adjustGOGC and is at runtime.GC()
AtForcedGC == \E i \in Timers : pc[Timer(i)] = "gc"

\* the steps of a timer callback, in order: it starts when its timer fires,
\* takes the lock, runs the body of adjustGOGC (an adjustment when the tuner
\* is enabled) and releases the lock, then runs runtime.GC() and arms the
\* timer t.forceGCTimer names
CallbackInOrder ==
    [][\A i \in Timers :
          pc'[Timer(i)] # pc[Timer(i)] =>
             \/ /\ pc[Timer(i)] = "idle" /\ pc'[Timer(i)] = "adj_lock"
                /\ armed[i] /\ ~armed'[i]
             \/ /\ pc[Timer(i)] = "adj_lock" /\ pc'[Timer(i)] = "adj_body"
                /\ mu' = Timer(i)
             \/ /\ pc[Timer(i)] = "adj_body" /\ pc'[Timer(i)] = "gc"
                /\ mu = Timer(i) /\ mu' = NoOne
                /\ enabled => newGOGC' # 0
             \/ /\ pc[Timer(i)] = "gc" /\ pc'[Timer(i)] = "idle"
                /\ forceGCTimer \in Timers /\ armed'[forceGCTimer]]_vars

\* C24: each run of the timer callback makes one adjustment, then one forced
\* collection, then arms the timer again; and if the tuner stays running
\* from some point on, callbacks reach the forced collection again and again.
C24_TimerCallbackRecurs ==
    /\ CallbackInOrder
    /\ (<>[](enabled /\ nStarts > 0))
          => []<>AtForcedGC

\* a callback of the running tuner has returned from an adjustment and is at
\* its forced collection, and no timer is armed at that moment
C24_Witness ==
    /\ enabled
    /\ nStarts = 1
    /\ pc[Timer(1)] = "gc"
    /\ newGOGC # 0
    /\ \A i \in Timers : ~armed[i]


----------------------------------------------------------------------------
(* Further properties of adjustGOGC on its own, under CalcSpec *)

\* C25, as stated: an enabled adjustment whose newGOGC is not applied leaves
\* lastGCTime unchanged.
C25_DiscardedKeepsTime ==
    [][(newGOGC' # 0 /\ knobCall' = NoCall) => lastGCTime' = lastGCTime]_vars


\* C26, as stated: once an enabled adjustment has completed, currentGOGC lies
\* within [MinGOGC, MaxGOGC], whatever currentGOGC NewTuner started with and
\* whatever the samples were.
C26_CurrentWithinBounds ==
    newGOGC # 0 => (config.MinGOGC <= currentGOGC /\ currentGOGC <= config.MaxGOGC)

\* C26, amended: once an adjustment has been applied, currentGOGC lies within
\* [MinGOGC, MaxGOGC] or is the 100 of an empty heap, for every Config
\* NewTuner accepts with MinGOGC <= MaxGOGC.
C26_AppliedWithinBounds ==
    (lastWrite = "adjust" /\ config.MinGOGC <= config.MaxGOGC)
    => \/ (config.MinGOGC <= currentGOGC /\ currentGOGC <= config.MaxGOGC)
       \/ currentGOGC = FallbackGOGC

\* NewTuner started above MaxGOGC, and an applied adjustment has brought
\* currentGOGC within the bounds
C26_Witness ==
    /\ lastWrite = "adjust"
    /\ config.MinGOGC <= config.MaxGOGC
    /\ InitialGOGC(given.envGOGC) > config.MaxGOGC
    /\ currentGOGC <= config.MaxGOGC
    /\ currentGOGC # FallbackGOGC


\* C27, as stated: after an enabled adjustment on a sample with
\* liveBytes > safetyLimit, the runtime's GC percent is MinGOGC, whatever
\* currentGOGC was before.
C27_OverLimitForcesMin ==
    (newGOGC # 0 /\ liveBytes > 0
       /\ 100 * liveBytes > memoryLimit * config.SafetyFactor)
    => gcPercent = config.MinGOGC

\* C27, amended: such an adjustment computes MinGOGC when MinGOGC <= MaxGOGC;
\* the GC percent and currentGOGC become MinGOGC when MinGOGC deviates from
\* currentGOGC by more than 10%, and both stay as they were otherwise.
C27_OverLimitForcesMinWhenSignificant ==
    [][(/\ newGOGC' # 0
        /\ liveBytes' > 0
        /\ 100 * liveBytes' > memoryLimit * config.SafetyFactor
        /\ config.MinGOGC <= config.MaxGOGC)
          => /\ newGOGC' = config.MinGOGC
             /\ IF 10 * Abs(config.MinGOGC - currentGOGC) > Abs(currentGOGC)
                THEN gcPercent' = config.MinGOGC /\ currentGOGC' = config.MinGOGC
                ELSE gcPercent' = gcPercent /\ currentGOGC' = currentGOGC]_vars

\* an adjustment on a sample above the safety limit has just computed a
\* MinGOGC within 10% of currentGOGC, and the GC percent is not MinGOGC
C27_Witness ==
    /\ newGOGC = config.MinGOGC
    /\ config.MinGOGC <= config.MaxGOGC
    /\ liveBytes > 0
    /\ 100 * liveBytes > memoryLimit * config.SafetyFactor
    /\ knobCall = NoCall
    /\ currentGOGC # config.MinGOGC
    /\ gcPercent = currentGOGC


----------------------------------------------------------------------------
(* Further properties of the lifecycle, under Spec *)

\* C28, as stated: when a Start that follows a Start, adjustments and a Stop
\* returns (its own adjustment done), the runtime's GC percent equals
\* currentGOGC.
C28_RestartCoherent ==
    [][(/\ pc[Main] = "adj_body"
        /\ pc'[Main] = "idle"
        /\ nStarts > 1
        /\ lastWrite' # "none")
          => gcPercent' = currentGOGC']_vars


----------------------------------------------------------------------------
(* adjustGOGC called again and again by one goroutine, each call taken as   *)
(* a whole from t.mu.Lock() to the deferred t.mu.Unlock(), so that the      *)
(* sample and the result of one call are still on record at the next.       *)

\* the values lines 625-654 compute for the sample live: float64 arithmetic
\* is deterministic, so a call that finds the sample of the call before it
\* computes the same newGOGC
RepeatedGOGCs(live) ==
    IF newGOGC # 0 /\ live = liveBytes THEN {newGOGC} ELSE NewGOGCs(live)

\* t.adjustGOGC() at a time t no earlier than the call before, with
\* MemStats.HeapAlloc = live
AdjustGOGC(t, live) ==
    /\ pc[Main] = "idle"
    /\ mu = NoOne
    /\ now' = t
    /\ \E new \in RepeatedGOGCs(live) :
          IF ~enabled
          THEN /\ knobCall' = NoCall
               /\ NoAdjustment
               /\ UNCHANGED <<currentGOGC, lastGCTime, gcPercent, lastWrite>>
          ELSE /\ lastGCTime' = t
               /\ liveBytes' = live
               /\ newGOGC' = new
               /\ ApplyGOGC(new)
    /\ snapshot' = NoSnapshot
    /\ UNCHANGED <<given, lastMetrics, config, memoryLimit, enabled, forceGCTimer, mu, pc,
                   armed, finReg, finRunning, nStarts>>

SteadyNext == \E t \in now..MaxClock, live \in 0..MaxLive : AdjustGOGC(t, live)

SteadySpec == CalcInit /\ [][SteadyNext]_vars

----------------------------------------------------------------------------
(* The lock under fair scheduling, under LiveSpec *)

\* goroutine p is inside adjustGOGC, waiting for t.mu or holding it
InAdjust(p) == pc[p] \in {"adj_lock", "adj_body"}

====
